---- MODULE Spec2Model ----
(***************************************************************************)
(* Session lifecycle of the interview-preparation backend: the interview   *)
(* variant (InterviewController, Interview model, AIService) and the test  *)
(* variant (TestController, TestSession model).                            *)
(*                                                                         *)
(* Reading of the source.  The handlers are modelled at the level of the   *)
(* TypeScript text.  Identifiers that the text leaves unbound are read as  *)
(* the binding they evidently denote: the shorthand property question_id   *)
(* in TestSession.addAnswer is the parameter questionId, the shorthand     *)
(* category_scores in Interview.generateFeedback is the local              *)
(* categoryScores, logger.logAuth and logger.logPerformance are the        *)
(* exported logging functions, and `this` in a static handler is its       *)
(* controller class.  Strings are sequences of one-character strings, so   *)
(* that trimming, case folding and substring search are computed and not   *)
(* assumed.  Dates are ticks of a logical clock; an unset date is 0.       *)
(* Fields that no handler reads back (started_at, createdAt, updatedAt,    *)
(* the texts of the feedback) are left out of the documents.               *)
(* A response is its status code, its message and what its body reveals:   *)
(* whose session it describes, the question it hands out, its is_complete  *)
(* flag and the fields of the question objects it carries.                 *)
(*                                                                         *)
(* Spec runs every handler as one step.  SpecConcurrent splits the two     *)
(* submitAnswer handlers at the await between their findOne and their      *)
(* save(), so that two requests on one session can overlap.                *)
(* SpecStartTest splits startTest between its findOne and its save().      *)
(* SpecRateLimit runs the authentication rate limiter (authRateLimit) on   *)
(* its own; logger.logSecurity is read like the other logging functions.   *)
(***************************************************************************)
EXTENDS Integers, Sequences, FiniteSets, TLC

\* ------------------------------------------------------------------ bounds
MaxClock == 2
MaxQuestionCount == 2
MaxAnswers == 2
MaxCompletions == 2
MaxAuthClock == 5
MaxAuthRequests == 7

\* ------------------------------------------------------- program constants
HTTP_OK == 200
HTTP_CREATED == 201
HTTP_BAD_REQUEST == 400
HTTP_NOT_FOUND == 404
HTTP_CONFLICT == 409
HTTP_TOO_MANY_REQUESTS == 429
HTTP_INTERNAL_SERVER_ERROR == 500
maxAttempts == 5
ScoreMax == 100
FallbackScore == 50

\* ------------------------------------------------------------------ strings
NaN == -1

Max(a, b) == IF a >= b THEN a ELSE b
Min(a, b) == IF a <= b THEN a ELSE b

\* Math.round of the non-negative rational n/d (round half up)
Round(n, d) == (2 * n + d) \div (2 * d)

UpperCase == [a |-> "A", e |-> "E", h |-> "H", p |-> "P"]
IsUpper(c) == \E k \in DOMAIN UpperCase : UpperCase[k] = c
LowerOf(c) == IF IsUpper(c) THEN CHOOSE k \in DOMAIN UpperCase : UpperCase[k] = c ELSE c

\* String.prototype.toLowerCase
toLowerCase(s) == [i \in 1..Len(s) |-> LowerOf(s[i])]

\* String.prototype.includes
includes(s, sub) ==
  \E i \in 1..(Len(s) - Len(sub) + 1) : SubSeq(s, i, i + Len(sub) - 1) = sub

\* String.prototype.trim
RECURSIVE trimStart(_)
trimStart(s) == IF s # <<>> /\ Head(s) = " " THEN trimStart(Tail(s)) ELSE s
RECURSIVE trimEnd(_)
trimEnd(s) == IF s # <<>> /\ s[Len(s)] = " " THEN trimEnd(SubSeq(s, 1, Len(s) - 1)) ELSE s
trim(s) == trimEnd(trimStart(s))

\* s.split(' ') : the pieces between single blanks (empty pieces included)
RECURSIVE split(_)
split(s) ==
  IF \E i \in 1..Len(s) : s[i] = " "
  THEN LET i == CHOOSE j \in 1..Len(s) : s[j] = " " /\ \A k \in 1..(j - 1) : s[k] # " "
       IN  <<SubSeq(s, 1, i - 1)>> \o split(SubSeq(s, i + 1, Len(s)))
  ELSE <<s>>

IsWordChar(c) == c \notin {".", ",", " "}
\* s.replace(/[^\w\s]/g, '')
stripPunctuation(s) == SelectSeq(s, LAMBDA c : IsWordChar(c) \/ c = " ")

Count(seq, P(_)) == Cardinality({i \in 1..Len(seq) : P(seq[i])})

RECURSIVE SumSeq(_)
SumSeq(seq) == IF seq = <<>> THEN 0 ELSE Head(seq) + SumSeq(Tail(seq))

\* ------------------------------------------------- fixed vocabulary (text)
T_explain == <<"e", "x", "p", "l", "a", "i", "n">>
T_describe == <<"d", "e", "s", "c", "r", "i", "b", "e">>
T_compare == <<"c", "o", "m", "p", "a", "r", "e">>
T_step == <<"s", "t", "e", "p">>
T_vs == <<"v", "s">>
T_because == <<"b", "e", "c", "a", "u", "s", "e">>
T_therefore == <<"t", "h", "e", "r", "e", "f", "o", "r", "e">>
T_algorithm == <<"a", "l", "g", "o", "r", "i", "t", "h", "m">>
T_data_structure == <<"d", "a", "t", "a", " ", "s", "t", "r", "u", "c", "t", "u", "r", "e">>
T_optimization == <<"o", "p", "t", "i", "m", "i", "z", "a", "t", "i", "o", "n">>
T_complexity == <<"c", "o", "m", "p", "l", "e", "x", "i", "t", "y">>
T_implementation == <<"i", "m", "p", "l", "e", "m", "e", "n", "t", "a", "t", "i", "o", "n">>

\* ---------------------------------------------------------------- AIService
technicalTerms == <<T_algorithm, T_data_structure, T_optimization, T_complexity, T_implementation>>

getKeywordVariations(keyword) ==
  <<keyword>>
    \o (IF includes(keyword, <<" ">>) THEN <<SelectSeq(keyword, LAMBDA c : c # " ")>> ELSE <<>>)
    \o (IF keyword # <<>> /\ keyword[Len(keyword)] = "s"
        THEN <<SubSeq(keyword, 1, Len(keyword) - 1)>>
        ELSE <<keyword \o <<"s">>>>)

containsKeyword(answer, keyword) ==
  LET variations == getKeywordVariations(keyword)
  IN  \E i \in 1..Len(variations) : includes(answer, variations[i])

calculateKeywordMatches(answer, keywords) ==
  LET answerLower == toLowerCase(answer)
  IN  Count(keywords, LAMBDA keyword : containsKeyword(answerLower, toLowerCase(keyword)))

calculateClarityScore(answer) ==
  LET lengthFactor == IF Len(answer) > 100 THEN 20 ELSE IF Len(answer) > 50 THEN 10 ELSE 0
      sentences == IF includes(answer, <<".">>) THEN 10 ELSE 0
      punctuation == IF includes(answer, <<",">>) THEN 5 ELSE 0
      explanations == IF includes(answer, T_because) \/ includes(answer, T_therefore) THEN 10 ELSE 0
      technicalCount == Count(technicalTerms, LAMBDA term : includes(toLowerCase(answer), term))
  IN  Min(100, 50 + lengthFactor + sentences + punctuation + explanations + technicalCount * 5)

calculateCompletenessScore(answer, question) ==
  LET questionWords == Len(split(question))
      answerWords == Len(split(answer))
      ratioBonus == IF answerWords > 2 * questionWords THEN 20
                    ELSE IF answerWords > questionWords THEN 10 ELSE 0
      explain == IF includes(question, T_explain) /\ Len(answer) > 100 THEN 15 ELSE 0
      describe == IF includes(question, T_describe) /\ includes(answer, T_step) THEN 15 ELSE 0
      compare == IF includes(question, T_compare) /\ includes(answer, T_vs) THEN 15 ELSE 0
  IN  Min(100, 50 + ratioBonus + explain + describe + compare)

\* the question's salient terms: tokens longer than 3 characters
questionTerms(question) ==
  SelectSeq(split(stripPunctuation(toLowerCase(question))), LAMBDA term : Len(term) > 3)

addressedTerms(answer, question) ==
  Count(questionTerms(question), LAMBDA term : includes(toLowerCase(answer), term))

\* 50 + (addressed / terms) * 30, rounded; 0/0 is NaN
calculateRelevanceScore(answer, question) ==
  LET t == Len(questionTerms(question))
  IN  IF t = 0 THEN NaN ELSE Min(100, Round(50 * t + 30 * addressedTerms(answer, question), t))

\* Math.round(0.4 keyword + 0.3 clarity + 0.2 completeness + 0.1 relevance) as
\* one exact fraction N / D, clamped to [0, 100]; NaN when a ratio is 0/0
simulateAIAnalysis(request) ==
  LET n == Len(request.expected_keywords)
      t == Len(questionTerms(request.question))
      keywordMatches == calculateKeywordMatches(request.user_answer, request.expected_keywords)
      clarityScore == calculateClarityScore(request.user_answer)
      completenessScore == calculateCompletenessScore(request.user_answer, request.question)
      a == addressedTerms(request.user_answer, request.question)
      N == 400 * keywordMatches * t + (3 * clarityScore + 2 * completenessScore) * n * t
             + (50 * t + 30 * a) * n
      D == 10 * n * t
      overallScore == IF n = 0 \/ t = 0 THEN NaN ELSE Round(N, D)
  IN  [score |-> IF overallScore = NaN THEN NaN ELSE Min(100, Max(0, overallScore)),
       keyword_matches |-> keywordMatches,
       clarity_score |-> clarityScore,
       completeness_score |-> completenessScore,
       relevance_score |-> calculateRelevanceScore(request.user_answer, request.question)]

getFallbackAnalysis(request) ==
  [score |-> FallbackScore, keyword_matches |-> 0, clarity_score |-> 50,
   completeness_score |-> 50, relevance_score |-> 50]

\* simulateAIAnalysis throws only on a request whose answer or keyword list is
\* not a string / an array; the handler passes a validated string and the
\* stored keyword array, so no request of the model makes it throw
simulateThrows(request) == FALSE

analyzeAnswer(request) ==
  IF simulateThrows(request) THEN getFallbackAnalysis(request) ELSE simulateAIAnalysis(request)

\* ------------------------------------------------------------ stored content
Q1_text == <<"e", "x", "p", "l", "a", "i", "n", " ", "h", "e", "a", "p">>
Q2_text == <<"w", "h", "y", " ", "s", "o", "r", "t">>
Q3_text == <<"e", "x", "p", "l", "a", "i", "n", " ", "l", "o", "c", "k">>
K_heap == <<"h", "e", "a", "p">>
K_tree == <<"t", "r", "e", "e">>
K_sort == <<"s", "o", "r", "t">>
A_blank == <<" ">>
A_weak == <<"n", "o">>
A_good == <<"a", " ", "h", "e", "a", "p", ",", " ", "a", " ", "t", "r", "e", "e", ".">>

Users == {"u1", "u2"}
\* the users who start sessions; every user sends the other requests
Candidates == {"u1"}
SessionIds == {"s1"}
Categories == {"technical", "behavioral"}
Difficulties == {"beginner", "intermediate", "advanced"}
Reasons == {"completed", "abandoned", "timeout"}
TerminalStatuses == {"completed", "abandoned", "timeout"}

\* QuestionBank documents (all active)
QuestionBank ==
  { [_id |-> "q1", question_text |-> Q1_text, question_type |-> "technical",
     category |-> "technical", difficulty |-> "beginner",
     expected_keywords |-> <<K_heap, K_tree>>, time_limit |-> 60],
    [_id |-> "q2", question_text |-> Q2_text, question_type |-> "technical",
     category |-> "technical", difficulty |-> "beginner",
     expected_keywords |-> <<K_sort>>, time_limit |-> 30],
    [_id |-> "q3", question_text |-> Q3_text, question_type |-> "system_design",
     category |-> "technical", difficulty |-> "advanced",
     expected_keywords |-> <<K_heap, K_tree>>, time_limit |-> 60],
    [_id |-> "q4", question_text |-> Q2_text, question_type |-> "behavioral",
     category |-> "behavioral", difficulty |-> "beginner",
     expected_keywords |-> <<>>, time_limit |-> 30] }

QuestionIds == {"q1", "q2", "q3", "q4"}
InterviewAnswers == {A_blank, A_weak, A_good}
TimeInputs == {20}
TestTimeInputs == {30}

\* JavaScript values a test answer can be (z.any())
Num(n) == [t |-> "number", v |-> <<>>, n |-> n]
Str(s) == [t |-> "string", v |-> s, n |-> 0]
StrictEq(a, b) == a.t = b.t /\ a.v = b.v /\ a.n = b.n
Digits == <<"0", "1", "2", "3", "4", "5", "6", "7", "8", "9">>
toString(a) == IF a.t = "number" THEN <<Digits[a.n + 1]>> ELSE a.v

\* Test documents
Tests ==
  [T1 |-> [is_active |-> TRUE, total_questions |-> 2, passing_score |-> 70,
           questions |-> <<
             [question_id |-> "t1", question_type |-> "multiple_choice",
              correct_answer |-> Num(1), points |-> 2, order |-> 1],
             [question_id |-> "t2", question_type |-> "fill_blank",
              correct_answer |-> Str(K_heap), points |-> 1, order |-> 2] >>],
   T2 |-> [is_active |-> FALSE, total_questions |-> 1, passing_score |-> 70,
           questions |-> <<
             [question_id |-> "t1", question_type |-> "multiple_choice",
              correct_answer |-> Num(1), points |-> 2, order |-> 1] >>],
   T3 |-> [is_active |-> TRUE, total_questions |-> 1, passing_score |-> 70,
           questions |-> <<
             [question_id |-> "t3", question_type |-> "multiple_choice",
              correct_answer |-> Str(K_heap), points |-> 3, order |-> 1] >>]]
TestIdInputs == {"T1", "T2", "T3", "T0"}
TestQuestionIds == {"t1", "t2", "t3"}
Undefined == [t |-> "undefined", v |-> <<>>, n |-> 0]
TestAnswers == {Num(1), Str(<<"H", "e", "a", "p", " ">>), Undefined}

\* -------------------------------------------------------------------- state
VARIABLES sessions, users, now, resp, requests, authAttempts, authLog
vars == <<sessions, users, now, resp, requests, authAttempts, authLog>>

NoSession == [kind |-> "none"]

\* the SubmitAnswer requests that can be in flight at once; a request is idle,
\* or holds the document its findOne returned until its save() is done
Requests == {"r1", "r2"}
Idle == [state |-> "idle"]

\* what a response body reveals: the owner of the session it describes, the
\* question it hands out next, its is_complete flag, and the fields of the
\* question objects it carries
\* (current_score is the set of the score a body reports: empty, or one number)
NoData == [owner |-> "none", next_question |-> "none", is_complete |-> FALSE,
           question_fields |-> {}, current_score |-> {}]
Payload(owner, next_question, is_complete, question_fields) ==
  [owner |-> owner, next_question |-> next_question, is_complete |-> is_complete,
   question_fields |-> question_fields, current_score |-> {}]

\* the keys of the question literals of the interview responses
InterviewQuestionView ==
  {"question_id", "question_text", "question_type", "time_allocated", "order"}
\* the paths of InterviewQuestionSchema
InterviewQuestionDocument ==
  {"question_id", "question_text", "question_type", "expected_keywords", "difficulty_weight",
   "time_allocated", "time_taken", "user_answer", "ai_score", "feedback", "order"}
\* the keys of the question literals of the test responses
TestQuestionView ==
  {"question_id", "question_text", "question_type", "options", "time_limit", "points",
   "order"}
\* the paths of TestQuestionSchema
TestQuestionDocument ==
  {"question_id", "question_text", "question_type", "options", "correct_answer",
   "explanation", "difficulty", "points", "time_limit", "tags", "order"}
NoFeedback == [present |-> FALSE]

TicksPerDay == 2
\* new Date(t).toDateString(): the calendar day of tick t (tick 0 is the epoch)
toDateString(t) == (t + TicksPerDay - 1) \div TicksPerDay

DefaultStatistics ==
  [interviews_completed |-> 0, tests_completed |-> 0, total_score |-> 0,
   current_streak |-> 0, longest_streak |-> 0]

Init ==
  /\ sessions = [s \in SessionIds |-> NoSession]
  /\ users = [u \in Users |-> DefaultStatistics]
  /\ now = 1
  /\ resp = [op |-> "none", user |-> "none", code |-> 0, message |-> "none",
             data |-> NoData]
  /\ requests = [r \in Requests |-> Idle]
  /\ authAttempts = [ip \in {} |-> 0]
  /\ authLog = <<>>

Tick ==
  /\ now < MaxClock
  /\ now' = now + 1
  /\ UNCHANGED <<sessions, users, resp, requests, authAttempts, authLog>>

\* a response without data (the error bodies)
Response(op, user, code, message) ==
  [op |-> op, user |-> user, code |-> code, message |-> message, data |-> NoData]

ResponseWith(op, user, code, message, data) ==
  [op |-> op, user |-> user, code |-> code, message |-> message, data |-> data]

\* ------------------------------------------------------------ Interview model
totalQuestions(iv) == Len(iv.questions)

isAnswered(q) == q.user_answer # <<>> /\ Len(trim(q.user_answer)) > 0

answeredQuestions(iv) == Count(iv.questions, isAnswered)

completionRate(iv) ==
  IF Len(iv.questions) = 0 THEN 0
  ELSE Round(answeredQuestions(iv) * 100, totalQuestions(iv))

totalTimeSpent(iv) == SumSeq([i \in 1..Len(iv.questions) |-> iv.questions[i].time_taken])

\* InterviewSchema.pre('save')
Interview_preSave(iv, statusModified) ==
  LET d == IF Len(iv.questions) > 0
           THEN [iv EXCEPT !.metadata.completion_rate = completionRate(iv),
                           !.metadata.answered_questions = answeredQuestions(iv)]
           ELSE iv
  IN  IF statusModified /\ d.status = "completed" /\ d.completed_at = 0
      THEN [d EXCEPT !.completed_at = now, !.metadata.completed_at = now]
      ELSE d

difficultyWeight10(difficulty) ==
  IF difficulty = "beginner" THEN 10 ELSE IF difficulty = "intermediate" THEN 12 ELSE 15

\* Math.round(averageScore * difficultyWeight * completionRate / 100)
calculateOverallScore(iv) ==
  IF Len(iv.questions) = 0 THEN 0
  ELSE LET totalScore == SumSeq([i \in 1..Len(iv.questions) |-> iv.questions[i].ai_score])
       IN  Round(totalScore * difficultyWeight10(iv.difficulty) * completionRate(iv),
                 Len(iv.questions) * 10 * 100)

calculateCategoryScore(iv, questionTypes) ==
  LET relevant == SelectSeq(iv.questions, LAMBDA q : q.question_type \in questionTypes)
  IN  IF Len(relevant) = 0 THEN 0
      ELSE Round(SumSeq([i \in 1..Len(relevant) |-> relevant[i].ai_score]), Len(relevant))

calculateConfidenceScore(iv) ==
  LET n == Len(iv.questions)
      sumLength == SumSeq([i \in 1..n |-> Len(iv.questions[i].user_answer)])
      sumAllocated == SumSeq([i \in 1..n |-> iv.questions[i].time_allocated])
      lengthBonus == IF sumLength > 100 * n THEN 20 ELSE IF sumLength > 50 * n THEN 10 ELSE 0
      timeBonus == IF 10 * totalTimeSpent(iv) < 8 * sumAllocated THEN 15
                   ELSE IF totalTimeSpent(iv) < sumAllocated THEN 10 ELSE 0
  IN  Min(100, Max(0, 50 + lengthBonus + timeBonus))

Interview_calculateClarityScore(iv) ==
  Round(SumSeq([i \in 1..Len(iv.questions) |-> iv.questions[i].feedback.keyword_matches]),
        Len(iv.questions))

calculateProblemSolvingScore(iv) == calculateCategoryScore(iv, {"technical", "system_design"})

calculateTimeManagementScore(iv) ==
  LET totalAllocated == SumSeq([i \in 1..Len(iv.questions) |-> iv.questions[i].time_allocated])
      totalUsed == totalTimeSpent(iv)
  IN  IF totalAllocated = 0 THEN 50
      ELSE IF 100 * totalAllocated - 50 * totalUsed <= 0 THEN 0
      ELSE Min(100, Round(100 * totalAllocated - 50 * totalUsed, totalAllocated))

getOverallRating(totalScore) ==
  IF totalScore >= 90 THEN "excellent"
  ELSE IF totalScore >= 75 THEN "good"
  ELSE IF totalScore >= 60 THEN "average"
  ELSE "needs_improvement"

generateFeedback(iv) ==
  LET totalScore == calculateOverallScore(iv)
  IN  [present |-> TRUE,
       total_score |-> totalScore,
       category_scores |->
         [communication |-> calculateCategoryScore(iv, {"behavioral", "situational"}),
          technical_knowledge |-> calculateCategoryScore(iv, {"technical", "system_design"}),
          confidence |-> calculateConfidenceScore(iv),
          clarity |-> Interview_calculateClarityScore(iv),
          problem_solving |-> calculateProblemSolvingScore(iv),
          time_management |-> calculateTimeManagementScore(iv)],
       overall_rating |-> getOverallRating(totalScore)]

InRange(x) == x # NaN /\ 0 <= x /\ x <= ScoreMax

\* the schema's validators, run by save() before the pre-save hook
Interview_validate(iv) ==
  /\ \A i \in 1..Len(iv.questions) :
       /\ InRange(iv.questions[i].ai_score)
       /\ InRange(iv.questions[i].feedback.keyword_matches)
       /\ InRange(iv.questions[i].feedback.clarity_score)
       /\ InRange(iv.questions[i].feedback.completeness_score)
       /\ InRange(iv.questions[i].feedback.relevance_score)
  /\ iv.overall_feedback.present =>
       /\ InRange(iv.overall_feedback.total_score)
       /\ \A c \in DOMAIN iv.overall_feedback.category_scores :
            InRange(iv.overall_feedback.category_scores[c])
  /\ iv.status \in {"in_progress", "completed", "abandoned", "paused"}

\* ------------------------------------------------------ InterviewController
\* mutation: $sample returns every matching document, whatever the count
getRandomQuestions_all(category, difficulty, count) ==
  LET matching == {q \in QuestionBank : q.category = category /\ q.difficulty = difficulty}
      k == Cardinality(matching)
  IN  {qs \in [1..k -> matching] : \A i, j \in 1..k : i # j => qs[i] # qs[j]}

\* mutation: $match filters on the category only
getRandomQuestions_anyDifficulty(category, difficulty, count) ==
  LET matching == {q \in QuestionBank : q.category = category}
      k == Min(count, Cardinality(matching))
  IN  {qs \in [1..k -> matching] : \A i, j \in 1..k : i # j => qs[i] # qs[j]}

\* the outcomes of $match + $sample: every sequence of distinct matching
\* documents of length min(count, number of matches)
getRandomQuestions(category, difficulty, count) ==
  LET matching == {q \in QuestionBank : q.category = category /\ q.difficulty = difficulty}
      k == Min(count, Cardinality(matching))
  IN  {qs \in [1..k -> matching] : \A i, j \in 1..k : i # j => qs[i] # qs[j]}

NewInterviewQuestion(q, index) ==
  [question_id |-> q._id, question_text |-> q.question_text,
   question_type |-> q.question_type, expected_keywords |-> q.expected_keywords,
   time_allocated |-> q.time_limit, time_taken |-> 0, user_answer |-> <<>>, ai_score |-> 0,
   feedback |-> [keyword_matches |-> 0, clarity_score |-> 0, completeness_score |-> 0,
                 relevance_score |-> 0],
   order |-> index]

NewInterview(u, category, difficulty, questions) ==
  [kind |-> "interview", user_id |-> u, category |-> category, difficulty |-> difficulty,
   questions |-> [i \in 1..Len(questions) |-> NewInterviewQuestion(questions[i], i)],
   overall_feedback |-> NoFeedback,
   metadata |-> [completion_rate |-> 0, answered_questions |-> 0, completed_at |-> 0],
   status |-> "in_progress", completed_at |-> 0]

startInterview(u, category, difficulty, question_count) ==
  \E questions \in getRandomQuestions(category, difficulty, question_count) :
    IF Len(questions) = 0
    THEN /\ resp' = Response("startInterview", u, HTTP_NOT_FOUND, "No questions available")
         /\ UNCHANGED <<sessions, users, now, requests, authAttempts, authLog>>
    ELSE \E sessionId \in SessionIds :
           /\ sessions[sessionId] = NoSession
           /\ sessions' = [sessions EXCEPT
                             ![sessionId] = Interview_preSave(
                                NewInterview(u, category, difficulty, questions), FALSE)]
           /\ resp' = ResponseWith("startInterview", u, HTTP_CREATED, "started",
                                    Payload(u, questions[1]._id, FALSE,
                                            InterviewQuestionView))
           /\ UNCHANGED <<users, now, requests, authAttempts, authLog>>

\* mutation: the lookup of submitAnswer without its status filter
Interview_findActive_anyStatus(u, s) ==
  /\ sessions[s].kind = "interview"
  /\ sessions[s].user_id = u

\* Interview.findOne({session_id, user_id, status: 'in_progress'})
Interview_findActive(u, s) ==
  /\ sessions[s].kind = "interview"
  /\ sessions[s].user_id = u
  /\ sessions[s].status = "in_progress"

\* mutation: the lookup without its user_id filter
Interview_find_anyUser(u, s) ==
  sessions[s].kind = "interview"

\* Interview.findOne({session_id, user_id})
Interview_find(u, s) ==
  /\ sessions[s].kind = "interview"
  /\ sessions[s].user_id = u

\* mutation: a question id that is not part of the session finds the first question
findQuestionIndex_orFirst(questions, question_id) ==
  IF \E i \in 1..Len(questions) : questions[i].question_id = question_id
  THEN CHOOSE i \in 1..Len(questions) :
         /\ questions[i].question_id = question_id
         /\ \A j \in 1..(i - 1) : questions[j].question_id # question_id
  ELSE 1

\* questions.findIndex(q => q.question_id.toString() === question_id); 0 if none
findQuestionIndex(questions, question_id) ==
  IF \E i \in 1..Len(questions) : questions[i].question_id = question_id
  THEN CHOOSE i \in 1..Len(questions) :
         /\ questions[i].question_id = question_id
         /\ \A j \in 1..(i - 1) : questions[j].question_id # question_id
  ELSE 0

\* mutation: the answer is written to the first question, whichever was found
Interview_answered_first(interview, idx, answer, time_taken) ==
  LET question == interview.questions[idx]
      aiAnalysis == analyzeAnswer([question |-> question.question_text,
                                   user_answer |-> answer,
                                   expected_keywords |-> question.expected_keywords])
  IN  [interview EXCEPT
         !.questions[1].user_answer = answer,
         !.questions[1].time_taken = time_taken,
         !.questions[1].ai_score = aiAnalysis.score,
         !.metadata.answered_questions = @ + 1]

\* the document submitAnswer hands to save()
Interview_answered(interview, idx, answer, time_taken) ==
  LET question == interview.questions[idx]
      aiAnalysis == analyzeAnswer([question |-> question.question_text,
                                   user_answer |-> answer,
                                   expected_keywords |-> question.expected_keywords])
  IN  [interview EXCEPT
         !.questions[idx].user_answer = answer,
         !.questions[idx].time_taken = time_taken,
         !.questions[idx].ai_score = aiAnalysis.score,
         !.questions[idx].feedback =
            [keyword_matches |-> aiAnalysis.keyword_matches,
             clarity_score |-> aiAnalysis.clarity_score,
             completeness_score |-> aiAnalysis.completeness_score,
             relevance_score |-> aiAnalysis.relevance_score],
         !.metadata.answered_questions = @ + 1]

\* nextQuestion = currentIndex < questions.length - 1 ? questions[currentIndex + 1] : null
\* and is_complete: !nextQuestion, as both submitAnswer handlers compute them
nextQuestionPayload(u, questions, currentIndex, view, current_score) ==
  [(IF currentIndex < Len(questions)
    THEN Payload(u, questions[currentIndex + 1].question_id, FALSE, view)
    ELSE Payload(u, "none", TRUE, {}))
   EXCEPT !.current_score = {current_score}]

\* InterviewController.getSession: the body is the stored document
Interview_getSession(u, s) ==
  /\ UNCHANGED <<sessions, users, now, requests, authAttempts, authLog>>
  /\ IF ~ Interview_find(u, s)
     THEN resp' = Response("Interview_getSession", u, HTTP_NOT_FOUND,
                           "Interview session not found")
     ELSE resp' = ResponseWith("Interview_getSession", u, HTTP_OK, "ok",
                               Payload(sessions[s].user_id, "none", FALSE,
                                       InterviewQuestionDocument))

\* mutation: the document that save() rejects is stored all the same
Interview_submitAnswer_keepsFailed(u, s, question_id, answer, time_taken) ==
  /\ UNCHANGED <<users, now, requests, authAttempts, authLog>>
  /\ IF ~ Interview_findActive(u, s)
     THEN /\ resp' = Response("Interview_submitAnswer", u, HTTP_NOT_FOUND,
                              "Interview session not found or not active")
          /\ sessions' = sessions
     ELSE LET idx == findQuestionIndex(sessions[s].questions, question_id)
          IN  IF idx = 0
              THEN /\ resp' = Response("Interview_submitAnswer", u, HTTP_NOT_FOUND,
                                       "Question not found")
                   /\ sessions' = sessions
              ELSE LET interview == Interview_answered(sessions[s], idx, answer, time_taken)
                   IN  IF Interview_validate(interview)
                       THEN /\ sessions' = [sessions EXCEPT
                                              ![s] = Interview_preSave(interview, FALSE)]
                            /\ resp' = ResponseWith("Interview_submitAnswer", u, HTTP_OK,
                                   "Answer submitted successfully",
                                   nextQuestionPayload(u, interview.questions, idx,
                                     InterviewQuestionView,
                                     calculateOverallScore(interview)))
                       ELSE /\ sessions' = [sessions EXCEPT ![s] = interview]
                            /\ resp' = Response("Interview_submitAnswer", u,
                                                HTTP_INTERNAL_SERVER_ERROR,
                                                "Internal server error")

Interview_submitAnswer(u, s, question_id, answer, time_taken) ==
  /\ UNCHANGED <<users, now, requests, authAttempts, authLog>>
  /\ IF ~ Interview_findActive(u, s)
     THEN /\ resp' = Response("Interview_submitAnswer", u, HTTP_NOT_FOUND,
                              "Interview session not found or not active")
          /\ sessions' = sessions
     ELSE LET idx == findQuestionIndex(sessions[s].questions, question_id)
          IN  IF idx = 0
              THEN /\ resp' = Response("Interview_submitAnswer", u, HTTP_NOT_FOUND,
                                       "Question not found")
                   /\ sessions' = sessions
              ELSE LET interview == Interview_answered(sessions[s], idx, answer, time_taken)
                   IN  IF Interview_validate(interview)
                       THEN /\ sessions' = [sessions EXCEPT
                                              ![s] = Interview_preSave(interview, FALSE)]
                            /\ resp' = ResponseWith("Interview_submitAnswer", u, HTTP_OK,
                                   "Answer submitted successfully",
                                   nextQuestionPayload(u, interview.questions, idx,
                                     InterviewQuestionView,
                                     calculateOverallScore(interview)))
                       ELSE /\ sessions' = sessions
                            /\ resp' = Response("Interview_submitAnswer", u,
                                                HTTP_INTERNAL_SERVER_ERROR,
                                                "Internal server error")

\* InterviewController.updateUserStatistics; last_interview_date is no path of
\* UserStatisticsSchema, so the stored user never carries one and the handler
\* reads `undefined || 0`, the epoch
Interview_updateUserStatistics(stats, interview) ==
  LET today == toDateString(now)
      lastInterview == toDateString(0)
      streak == IF today # lastInterview THEN stats.current_streak + 1 ELSE stats.current_streak
  IN  [stats EXCEPT
         !.interviews_completed = @ + 1,
         !.total_score = @ + interview.overall_feedback.total_score,
         !.current_streak = streak,
         !.longest_streak = IF today # lastInterview THEN Max(@, streak) ELSE @]

\* the document completeInterview hands to save()
Interview_completed(interview, reason) ==
  LET d == [interview EXCEPT
              !.status = IF reason = "completed" THEN "completed" ELSE "abandoned",
              !.completed_at = now,
              !.metadata.completed_at = now]
  IN  [d EXCEPT !.overall_feedback = generateFeedback(d)]

completeInterview(u, s, reason) ==
  /\ UNCHANGED <<now, requests, authAttempts, authLog>>
  /\ IF ~ Interview_find(u, s)
     THEN /\ resp' = Response("completeInterview", u, HTTP_NOT_FOUND,
                              "Interview session not found")
          /\ UNCHANGED <<sessions, users>>
     ELSE LET interview == Interview_completed(sessions[s], reason)
          IN  IF Interview_validate(interview)
              THEN /\ reason = "completed" =>
                        users[u].interviews_completed + users[u].tests_completed
                          < MaxCompletions
                   /\ sessions' = [sessions EXCEPT ![s] = Interview_preSave(interview, TRUE)]
                   /\ users' = IF reason = "completed"
                               THEN [users EXCEPT
                                       ![u] = Interview_updateUserStatistics(@, interview)]
                               ELSE users
                   /\ resp' = ResponseWith("completeInterview", u, HTTP_OK,
                                           "Interview completed successfully",
                                           Payload(u, "none", FALSE, {}))
              ELSE /\ resp' = Response("completeInterview", u, HTTP_INTERNAL_SERVER_ERROR,
                                       "Internal server error")
                   /\ UNCHANGED <<sessions, users>>

\* ---------------------------------------------------------- TestSession model
\* answer.toString() throws on undefined
checkAnswerThrows(question, answer) ==
  question.question_type \in {"fill_blank", "coding"} /\ answer.t = "undefined"

checkAnswer(question, answer) ==
  CASE question.question_type \in {"multiple_choice", "true_false"} ->
         StrictEq(answer, question.correct_answer)
    [] question.question_type = "fill_blank" ->
         trim(toLowerCase(toString(answer)))
           = trim(toLowerCase(toString(question.correct_answer)))
    [] question.question_type = "coding" ->
         includes(toLowerCase(toString(answer)),
                  toLowerCase(toString(question.correct_answer)))
    [] question.question_type = "essay" -> TRUE
    [] OTHER -> FALSE

findTestQuestion(test, question_id) ==
  CHOOSE i \in 1..Len(test.questions) :
    /\ test.questions[i].question_id = question_id
    /\ \A j \in 1..(i - 1) : test.questions[j].question_id # question_id

\* mutation: a wrong answer earns half of the points of the question
addAnswer_partialCredit(session, test, questionId, answer, timeSpent) ==
  LET question == test.questions[findTestQuestion(test, questionId)]
      isCorrect == checkAnswer(question, answer)
      pointsEarned == IF isCorrect THEN question.points ELSE question.points \div 2
      correct == session.correct_answers + (IF isCorrect THEN 1 ELSE 0)
  IN  [session EXCEPT
         !.answers = Append(@, [question_id |-> questionId, selected_answer |-> answer,
                                is_correct |-> isCorrect, time_spent |-> timeSpent,
                                points_earned |-> pointsEarned]),
         !.correct_answers = correct,
         !.time_spent = @ + timeSpent,
         !.score = Round(correct * 100, session.total_questions)]

\* the document addAnswer hands to save()
addAnswer(session, test, questionId, answer, timeSpent) ==
  LET question == test.questions[findTestQuestion(test, questionId)]
      isCorrect == checkAnswer(question, answer)
      pointsEarned == IF isCorrect THEN question.points ELSE 0
      correct == session.correct_answers + (IF isCorrect THEN 1 ELSE 0)
  IN  [session EXCEPT
         !.answers = Append(@, [question_id |-> questionId, selected_answer |-> answer,
                                is_correct |-> isCorrect, time_spent |-> timeSpent,
                                points_earned |-> pointsEarned]),
         !.correct_answers = correct,
         !.time_spent = @ + timeSpent,
         !.score = Round(correct * 100, session.total_questions)]

\* the schema's validators, run by save() before the pre-save hook
TestSession_validate(session) ==
  /\ \A i \in 1..Len(session.answers) :
       /\ session.answers[i].selected_answer.t # "undefined"
       /\ session.answers[i].time_spent >= 0
       /\ session.answers[i].points_earned >= 0
  /\ 0 <= session.score /\ session.score <= ScoreMax
  /\ session.total_questions >= 1
  /\ session.correct_answers >= 0
  /\ session.status \in {"in_progress", "completed", "abandoned", "timeout"}

\* mutation: the hook divides by the number of answers, not of questions
TestSession_preSave_perAnswer(session, answersModified) ==
  IF answersModified /\ Len(session.answers) > 0
  THEN LET correct == Count(session.answers, LAMBDA a : a.is_correct)
       IN  [session EXCEPT !.correct_answers = correct,
                           !.score = Round(correct * 100, Len(session.answers))]
  ELSE session

\* TestSessionSchema.pre('save')
TestSession_preSave(session, answersModified) ==
  IF answersModified /\ Len(session.answers) > 0
  THEN LET correct == Count(session.answers, LAMBDA a : a.is_correct)
       IN  [session EXCEPT !.correct_answers = correct,
                           !.score = Round(correct * 100, session.total_questions)]
  ELSE session

\* ------------------------------------------------------------ TestController
NewTestSession(u, test_id) ==
  [kind |-> "test", user_id |-> u, test_id |-> test_id, answers |-> <<>>, score |-> 0,
   total_questions |-> Tests[test_id].total_questions, correct_answers |-> 0,
   time_spent |-> 0, status |-> "in_progress", completed_at |-> 0]

\* TestSession.findOne({user_id, test_id, status: 'in_progress'})
TestSession_existing(u, test_id) ==
  \E s \in DOMAIN sessions :
    /\ sessions[s].kind = "test"
    /\ sessions[s].user_id = u
    /\ sessions[s].test_id = test_id
    /\ sessions[s].status = "in_progress"

startTest(u, test_id) ==
  /\ UNCHANGED <<users, now, requests, authAttempts, authLog>>
  /\ IF test_id \notin DOMAIN Tests
     THEN /\ resp' = Response("startTest", u, HTTP_NOT_FOUND, "Test not found")
          /\ sessions' = sessions
     ELSE IF ~ Tests[test_id].is_active
     THEN /\ resp' = Response("startTest", u, HTTP_BAD_REQUEST, "Test is not available")
          /\ sessions' = sessions
     ELSE IF TestSession_existing(u, test_id)
     THEN /\ resp' = Response("startTest", u, HTTP_CONFLICT,
                              "You already have an active session for this test")
          /\ sessions' = sessions
     ELSE \E sessionId \in DOMAIN sessions :
            /\ sessions[sessionId] = NoSession
            /\ sessions' = [sessions EXCEPT
                              ![sessionId] = TestSession_preSave(NewTestSession(u, test_id),
                                                                 FALSE)]
            /\ resp' = ResponseWith("startTest", u, HTTP_CREATED, "started",
                                     Payload(u, Tests[test_id].questions[1].question_id,
                                             FALSE, TestQuestionView))

\* TestSession.findOne({session_id, user_id, status: 'in_progress'})
TestSession_findActive(u, s) ==
  /\ sessions[s].kind = "test"
  /\ sessions[s].user_id = u
  /\ sessions[s].status = "in_progress"

\* TestSession.findOne({session_id, user_id})
TestSession_find(u, s) ==
  /\ sessions[s].kind = "test"
  /\ sessions[s].user_id = u

Test_submitAnswer(u, s, question_id, answer, time_spent) ==
  /\ UNCHANGED <<users, now, requests, authAttempts, authLog>>
  /\ IF ~ TestSession_findActive(u, s)
     THEN /\ resp' = Response("Test_submitAnswer", u, HTTP_NOT_FOUND,
                              "Test session not found or not active")
          /\ sessions' = sessions
     ELSE LET test == Tests[sessions[s].test_id]
          IN  IF ~ \E i \in 1..Len(test.questions) : test.questions[i].question_id = question_id
              THEN /\ resp' = Response("Test_submitAnswer", u, HTTP_NOT_FOUND,
                                       "Question not found")
                   /\ sessions' = sessions
              ELSE IF checkAnswerThrows(test.questions[findTestQuestion(test, question_id)],
                                        answer)
              THEN /\ resp' = Response("Test_submitAnswer", u, HTTP_INTERNAL_SERVER_ERROR,
                                       "Internal server error")
                   /\ sessions' = sessions
              ELSE LET session == addAnswer(sessions[s], test, question_id, answer, time_spent)
                   IN  IF TestSession_validate(session)
                       THEN /\ Len(sessions[s].answers) < MaxAnswers
                            /\ sessions' = [sessions EXCEPT
                                              ![s] = TestSession_preSave(session, TRUE)]
                            /\ resp' = ResponseWith("Test_submitAnswer", u, HTTP_OK,
                                   "Answer submitted successfully",
                                   nextQuestionPayload(u, test.questions,
                                     findTestQuestion(test, question_id),
                                     TestQuestionView,
                                     TestSession_preSave(session, TRUE).score))
                       ELSE /\ sessions' = sessions
                            /\ resp' = Response("Test_submitAnswer", u,
                                                HTTP_INTERNAL_SERVER_ERROR,
                                                "Internal server error")

\* TestController.updateUserStatistics; last_test_date is no path of
\* UserStatisticsSchema, so the handler reads `undefined || 0`, the epoch
Test_updateUserStatistics(stats, session) ==
  LET today == toDateString(now)
      lastTest == toDateString(0)
      streak == IF today # lastTest THEN stats.current_streak + 1 ELSE stats.current_streak
  IN  [stats EXCEPT
         !.tests_completed = @ + 1,
         !.total_score = @ + session.score,
         !.current_streak = streak,
         !.longest_streak = IF today # lastTest THEN Max(@, streak) ELSE @]

\* mutation: completion that does not stamp completed_at
TestSession_completed_noStamp(session, reason) ==
  [session EXCEPT !.status = IF reason = "completed" THEN "completed" ELSE "abandoned"]

\* the document completeTest hands to save()
TestSession_completed(session, reason) ==
  [session EXCEPT
     !.status = IF reason = "completed" THEN "completed" ELSE "abandoned",
     !.completed_at = now]

completeTest(u, s, reason) ==
  /\ UNCHANGED <<now, requests, authAttempts, authLog>>
  /\ IF ~ TestSession_find(u, s)
     THEN /\ resp' = Response("completeTest", u, HTTP_NOT_FOUND, "Test session not found")
          /\ UNCHANGED <<sessions, users>>
     ELSE LET session == TestSession_preSave(TestSession_completed(sessions[s], reason), FALSE)
          IN  /\ reason = "completed" =>
                   users[u].interviews_completed + users[u].tests_completed < MaxCompletions
              /\ sessions' = [sessions EXCEPT ![s] = session]
              /\ users' = IF reason = "completed"
                          THEN [users EXCEPT ![u] = Test_updateUserStatistics(@, session)]
                          ELSE users
              /\ resp' = ResponseWith("completeTest", u, HTTP_OK,
                                      "Test completed successfully",
                                      Payload(u, "none", FALSE, {}))

\* TestController.getTest: Test.findById, the body is the stored test
getTest(u, test_id) ==
  /\ UNCHANGED <<sessions, users, now, requests, authAttempts, authLog>>
  /\ IF test_id \notin DOMAIN Tests
     THEN resp' = Response("getTest", u, HTTP_NOT_FOUND, "Test not found")
     ELSE resp' = ResponseWith("getTest", u, HTTP_OK, "ok",
                               Payload("none", "none", FALSE, TestQuestionDocument))

\* TestController.getSession: the stored session, its test populated with
\* title, description, category, difficulty and duration only
Test_getSession(u, s) ==
  /\ UNCHANGED <<sessions, users, now, requests, authAttempts, authLog>>
  /\ IF ~ TestSession_find(u, s)
     THEN resp' = Response("Test_getSession", u, HTTP_NOT_FOUND, "Test session not found")
     ELSE resp' = ResponseWith("Test_getSession", u, HTTP_OK, "ok",
                               Payload(sessions[s].user_id, "none", FALSE, {}))

\* TestSession.findOne({session_id, user_id, status: 'completed'})
TestSession_findCompleted(u, s) ==
  /\ sessions[s].kind = "test"
  /\ sessions[s].user_id = u
  /\ sessions[s].status = "completed"

\* TestController.getResults
getResults(u, s) ==
  /\ UNCHANGED <<sessions, users, now, requests, authAttempts, authLog>>
  /\ IF ~ TestSession_findCompleted(u, s)
     THEN resp' = Response("getResults", u, HTTP_NOT_FOUND, "Test results not found")
     ELSE resp' = ResponseWith("getResults", u, HTTP_OK, "ok",
                               Payload(sessions[s].user_id, "none", FALSE, {}))

\* ------------------------------------------------- overlapping submissions
\* Both submitAnswer handlers await between their findOne and their save()
\* (the analysis of the answer, the validation and the hooks of save), so two
\* requests can each hold a document read before the other one's write.
\* save() writes the paths of the document that the handler and the hook
\* changed since it was read and leaves every other path as stored
MergeModified(stored, loaded, memory) ==
  [f \in DOMAIN stored |-> IF memory[f] # loaded[f] THEN memory[f] ELSE stored[f]]

\* interview.save(): modified paths of each question and of the metadata
Interview_save(stored, loaded, memory) ==
  [MergeModified(stored, loaded, memory) EXCEPT
     !.questions = [i \in 1..Len(stored.questions) |->
                      MergeModified(stored.questions[i], loaded.questions[i],
                                    memory.questions[i])],
     !.metadata = MergeModified(stored.metadata, loaded.metadata, memory.metadata)]

\* session.save() of addAnswer: the pushed answers are appended to the stored
\* array, the other modified paths are set
TestSession_save(stored, loaded, memory) ==
  [MergeModified(stored, loaded, memory) EXCEPT
     !.answers = stored.answers \o SubSeq(memory.answers, Len(loaded.answers) + 1,
                                          Len(memory.answers))]

Found(u, s, question_id, answer, time) ==
  [state |-> "found", user |-> u, session_id |-> s, question_id |-> question_id,
   answer |-> answer, time |-> time, document |-> sessions[s]]

\* InterviewController.submitAnswer up to its first await after the lookups
Interview_submitAnswer_find(r, u, s, question_id, answer, time_taken) ==
  /\ requests[r] = Idle
  /\ Interview_findActive(u, s)
  /\ findQuestionIndex(sessions[s].questions, question_id) # 0
  /\ requests' = [requests EXCEPT ![r] = Found(u, s, question_id, answer, time_taken)]
  /\ UNCHANGED <<sessions, users, now, resp, authAttempts, authLog>>

\* the rest of InterviewController.submitAnswer: analysis, save() and response
Interview_submitAnswer_save(r) ==
  /\ requests[r].state = "found"
  /\ requests[r].document.kind = "interview"
  /\ UNCHANGED <<users, now, authAttempts, authLog>>
  /\ LET req == requests[r]
         idx == findQuestionIndex(req.document.questions, req.question_id)
         interview == Interview_answered(req.document, idx, req.answer, req.time)
     IN  IF Interview_validate(interview)
         THEN /\ sessions' = [sessions EXCEPT
                                ![req.session_id] =
                                   Interview_save(@, req.document,
                                                  Interview_preSave(interview, FALSE))]
              /\ resp' = ResponseWith("Interview_submitAnswer", req.user, HTTP_OK,
                                      "Answer submitted successfully",
                                      nextQuestionPayload(req.user, interview.questions, idx,
                                        InterviewQuestionView,
                                        calculateOverallScore(interview)))
              /\ requests' = [requests EXCEPT ![r].state = "saved"]
         ELSE /\ sessions' = sessions
              /\ resp' = Response("Interview_submitAnswer", req.user,
                                  HTTP_INTERNAL_SERVER_ERROR, "Internal server error")
              /\ requests' = [requests EXCEPT ![r].state = "failed"]

\* TestController.submitAnswer up to its call of addAnswer
Test_submitAnswer_find(r, u, s, question_id, answer, time_spent) ==
  /\ requests[r] = Idle
  /\ TestSession_findActive(u, s)
  /\ \E i \in 1..Len(Tests[sessions[s].test_id].questions) :
       Tests[sessions[s].test_id].questions[i].question_id = question_id
  /\ requests' = [requests EXCEPT ![r] = Found(u, s, question_id, answer, time_spent)]
  /\ UNCHANGED <<sessions, users, now, resp, authAttempts, authLog>>

\* the rest of TestController.submitAnswer: addAnswer, its save() and response
Test_submitAnswer_save(r) ==
  /\ requests[r].state = "found"
  /\ requests[r].document.kind = "test"
  /\ UNCHANGED <<users, now, authAttempts, authLog>>
  /\ LET req == requests[r]
         test == Tests[req.document.test_id]
         question == test.questions[findTestQuestion(test, req.question_id)]
         session == addAnswer(req.document, test, req.question_id, req.answer, req.time)
     IN  IF ~ checkAnswerThrows(question, req.answer) /\ TestSession_validate(session)
         THEN /\ sessions' = [sessions EXCEPT
                                ![req.session_id] =
                                   TestSession_save(@, req.document,
                                                    TestSession_preSave(session, TRUE))]
              /\ resp' = ResponseWith("Test_submitAnswer", req.user, HTTP_OK,
                                      "Answer submitted successfully",
                                      nextQuestionPayload(req.user, test.questions,
                                        findTestQuestion(test, req.question_id),
                                        TestQuestionView,
                                        TestSession_preSave(session, TRUE).score))
              /\ requests' = [requests EXCEPT ![r].state = "saved"]
         ELSE /\ sessions' = sessions
              /\ resp' = Response("Test_submitAnswer", req.user,
                                  HTTP_INTERNAL_SERVER_ERROR, "Internal server error")
              /\ requests' = [requests EXCEPT ![r].state = "failed"]

\* TestController.startTest up to the answer of its findOne for an active
\* session of the test: the early returns answer at once, otherwise the request
\* goes on to create its session
Checked(u, test_id) == [state |-> "checked", user |-> u, test_id |-> test_id]

startTest_find(r, u, test_id) ==
  /\ requests[r] = Idle
  /\ UNCHANGED <<sessions, users, now, authAttempts, authLog>>
  /\ IF test_id \notin DOMAIN Tests
     THEN /\ resp' = Response("startTest", u, HTTP_NOT_FOUND, "Test not found")
          /\ requests' = [requests EXCEPT ![r] = [state |-> "failed"]]
     ELSE IF ~ Tests[test_id].is_active
     THEN /\ resp' = Response("startTest", u, HTTP_BAD_REQUEST, "Test is not available")
          /\ requests' = [requests EXCEPT ![r] = [state |-> "failed"]]
     ELSE IF TestSession_existing(u, test_id)
     THEN /\ resp' = Response("startTest", u, HTTP_CONFLICT,
                              "You already have an active session for this test")
          /\ requests' = [requests EXCEPT ![r] = [state |-> "failed"]]
     ELSE /\ resp' = resp
          /\ requests' = [requests EXCEPT ![r] = Checked(u, test_id)]

\* the rest of TestController.startTest: uuidv4(), new TestSession, save() and
\* the 201 response
startTest_save(r) ==
  /\ requests[r].state = "checked"
  /\ UNCHANGED <<users, now, authAttempts, authLog>>
  /\ LET req == requests[r]
     IN  \E sessionId \in DOMAIN sessions :
           /\ sessions[sessionId] = NoSession
           /\ sessions' = [sessions EXCEPT
                             ![sessionId] =
                                TestSession_preSave(NewTestSession(req.user, req.test_id),
                                                    FALSE)]
           /\ resp' = ResponseWith("startTest", req.user, HTTP_CREATED, "started",
                                    Payload(req.user,
                                            Tests[req.test_id].questions[1].question_id,
                                            FALSE, TestQuestionView))
           /\ requests' = [requests EXCEPT ![r] = [state |-> "saved"]]

\* ------------------------------------------------------------ authRateLimit
\* authAttempts is global.authAttempts, an object keyed by caller address (no
\* key before the first request); authLog lists, request by request, what the
\* middleware decided.  A tick of the clock is five minutes here.
Ips == {"ip1", "ip2"}
\* 15 * 60 * 1000 milliseconds
windowMs == 3

\* mutation: the limiter without its clean-up of old attempts
cleaned_never(attempts, t) == attempts

\* "Clean old attempts": the entries left by the forEach over Object.keys
cleaned(attempts, t) ==
  [k \in {key \in DOMAIN attempts : ~ (t - attempts[key].firstAttempt > windowMs)} |->
     attempts[k]]

authRateLimit(ip) ==
  /\ Len(authLog) < MaxAuthRequests
  /\ UNCHANGED <<sessions, users, now, requests>>
  /\ LET kept == cleaned(authAttempts, now)
         attempts == IF ip \notin DOMAIN kept
                     THEN [k \in DOMAIN kept \cup {ip} |->
                             IF k = ip THEN [count |-> 1, firstAttempt |-> now]
                             ELSE kept[k]]
                     ELSE [kept EXCEPT ![ip].count = @ + 1]
     IN  /\ authAttempts' = attempts
         /\ IF attempts[ip].count > maxAttempts
            THEN /\ resp' = Response("authRateLimit", ip, HTTP_TOO_MANY_REQUESTS,
                                     "Too many authentication attempts")
                 /\ authLog' = Append(authLog, [ip |-> ip, at |-> now, passed |-> FALSE])
            ELSE /\ resp' = Response("authRateLimit", ip, 0, "next")
                 /\ authLog' = Append(authLog, [ip |-> ip, at |-> now, passed |-> TRUE])

\* Date.now() moves on
AuthTick ==
  /\ now < MaxAuthClock
  /\ now' = now + 1
  /\ UNCHANGED <<sessions, users, resp, requests, authAttempts, authLog>>

\* ------------------------------------------------------------- specification
Next ==
  \/ Tick
  \/ \E u \in Candidates, c \in Categories, d \in Difficulties, k \in 1..MaxQuestionCount :
       startInterview(u, c, d, k)
  \/ \E u \in Users, s \in SessionIds, q \in QuestionIds, a \in InterviewAnswers,
        t \in TimeInputs : Interview_submitAnswer(u, s, q, a, t)
  \/ \E u \in Users, s \in SessionIds, r \in Reasons : completeInterview(u, s, r)
  \/ \E u \in Candidates, id \in TestIdInputs : startTest(u, id)
  \/ \E u \in Users, s \in SessionIds, q \in TestQuestionIds, a \in TestAnswers,
        t \in TestTimeInputs : Test_submitAnswer(u, s, q, a, t)
  \/ \E u \in Users, s \in SessionIds, r \in Reasons : completeTest(u, s, r)
  \/ \E u \in Users, s \in SessionIds : Interview_getSession(u, s)
  \/ \E u \in Users, id \in TestIdInputs : getTest(u, id)
  \/ \E u \in Users, s \in SessionIds : Test_getSession(u, s)
  \/ \E u \in Users, s \in SessionIds : getResults(u, s)

Spec == Init /\ [][Next]_vars

\* the handlers of a session with the two halves of SubmitAnswer interleaving
NextConcurrent ==
  \/ \E u \in Candidates, c \in Categories, d \in Difficulties, k \in 1..MaxQuestionCount :
       startInterview(u, c, d, k)
  \/ \E r \in Requests, u \in Users, s \in SessionIds, q \in QuestionIds,
        a \in InterviewAnswers, t \in TimeInputs :
       Interview_submitAnswer_find(r, u, s, q, a, t)
  \/ \E r \in Requests : Interview_submitAnswer_save(r)
  \/ \E u \in Candidates, id \in TestIdInputs : startTest(u, id)
  \/ \E r \in Requests, u \in Users, s \in SessionIds, q \in TestQuestionIds,
        a \in TestAnswers, t \in TestTimeInputs :
       Test_submitAnswer_find(r, u, s, q, a, t)
  \/ \E r \in Requests : Test_submitAnswer_save(r)
  \/ \E u \in Candidates, s \in SessionIds, r \in Reasons : completeInterview(u, s, r)
  \/ \E u \in Candidates, s \in SessionIds, r \in Reasons : completeTest(u, s, r)

SpecConcurrent == Init /\ [][NextConcurrent]_vars

\* the test sessions of one user with the two halves of startTest interleaving;
\* the collection has room for the sessions of both requests
StartTestSessionIds == {"s1", "s2"}

InitStartTest ==
  /\ sessions = [s \in StartTestSessionIds |-> NoSession]
  /\ users = [u \in Users |-> DefaultStatistics]
  /\ now = 1
  /\ resp = [op |-> "none", user |-> "none", code |-> 0, message |-> "none",
             data |-> NoData]
  /\ requests = [r \in Requests |-> Idle]
  /\ authAttempts = [ip \in {} |-> 0]
  /\ authLog = <<>>

NextStartTest ==
  \/ \E r \in Requests, u \in Candidates, id \in TestIdInputs : startTest_find(r, u, id)
  \/ \E r \in Requests : startTest_save(r)
  \/ \E u \in Candidates, s \in StartTestSessionIds, q \in TestQuestionIds,
        a \in TestAnswers, t \in TestTimeInputs : Test_submitAnswer(u, s, q, a, t)
  \/ \E u \in Candidates, s \in StartTestSessionIds, r \in Reasons : completeTest(u, s, r)

SpecStartTest == InitStartTest /\ [][NextStartTest]_vars

\* the requests that reach the authentication rate limiter
NextRateLimit ==
  \/ AuthTick
  \/ \E ip \in Ips : authRateLimit(ip)

SpecRateLimit == Init /\ [][NextRateLimit]_vars

\* ------------------------------------------------------------------ claims
IsSession(s) == sessions[s].kind \in {"interview", "test"}
IsTerminal(s) == IsSession(s) /\ sessions[s].status \in TerminalStatuses
InvalidStateCodes == {HTTP_BAD_REQUEST, HTTP_CONFLICT}

\* a SubmitAnswer step of user u on session s, in the variant of the session
SubmitAnswerStep(u, s) ==
  \/ /\ sessions[s].kind = "interview"
     /\ \E q \in QuestionIds, a \in InterviewAnswers, t \in TimeInputs :
          Interview_submitAnswer(u, s, q, a, t)
  \/ /\ sessions[s].kind = "test"
     /\ \E q \in TestQuestionIds, a \in TestAnswers, t \in TestTimeInputs :
          Test_submitAnswer(u, s, q, a, t)

\* a CompleteSession step of user u on session s, in the variant of the session
CompleteSessionStep(u, s, r) ==
  \/ sessions[s].kind = "interview" /\ completeInterview(u, s, r)
  \/ sessions[s].kind = "test" /\ completeTest(u, s, r)

\* C1: once the status of a session is terminal (completed, abandoned or
\* timeout), no step changes it again
TerminalStatusIsFinal ==
  [][\A s \in SessionIds : IsTerminal(s) => sessions'[s].status = sessions[s].status]_vars

CompleteOnTerminalIsRejected ==
  [][\A u \in Users, s \in SessionIds, r \in Reasons :
       (IsTerminal(s) /\ sessions[s].user_id = u /\ CompleteSessionStep(u, s, r))
         => /\ resp'.code \in InvalidStateCodes
            /\ sessions'[s].completed_at = sessions[s].completed_at
            /\ sessions' = sessions
            /\ users' = users]_vars

\* C4: in every reachable state completed_at of a session is set if and only
\* if its status is terminal
CompletedAtIffTerminal ==
  \A s \in SessionIds :
    IsSession(s) => (sessions[s].completed_at # 0 <=> sessions[s].status \in TerminalStatuses)

\* C4 witness: a session that was completed and carries its completion time
CompletedSessionStamped ==
  \E s \in SessionIds :
    /\ IsTerminal(s)
    /\ sessions[s].completed_at # 0
    /\ resp.op \in {"completeInterview", "completeTest"}
    /\ resp.code = HTTP_OK

\* the number of answered questions a session records
answeredCount(session) ==
  IF session.kind = "interview" THEN session.metadata.answered_questions
  ELSE Len(session.answers)

totalCount(session) ==
  IF session.kind = "interview" THEN Len(session.questions) ELSE session.total_questions

\* C5: the number of answered questions recorded on a session never exceeds
\* the number of its questions, repeated submissions included
AnsweredAtMostTotal ==
  \A s \in SessionIds :
    IsSession(s) => answeredCount(sessions[s]) <= totalCount(sessions[s])

\* the aggregate score derived from the attempts a session holds
aggregate_score(session) ==
  IF session.kind = "interview" THEN calculateOverallScore(session)
  ELSE Round(Count(session.answers, LAMBDA a : a.is_correct) * 100, session.total_questions)

attemptsOf(session, q) ==
  IF session.kind = "interview"
  THEN SelectSeq(session.questions, LAMBDA x : x.question_id = q)
  ELSE SelectSeq(session.answers, LAMBDA x : x.question_id = q)

\* the answered attempts a session holds for question q
answeredAttemptsOf(session, q) ==
  IF session.kind = "interview"
  THEN SelectSeq(session.questions, LAMBDA x : x.question_id = q /\ x.user_answer # <<>>)
  ELSE SelectSeq(session.answers, LAMBDA x : x.question_id = q)

\* C7: a session holds at most one answered attempt per question, and a
\* successful SubmitAnswer that repeats the recorded (question, answer, time)
\* leaves the attempts, the answered count and the score as they were
ResubmissionOverwrites ==
  /\ [](\A s \in SessionIds, q \in QuestionIds \cup TestQuestionIds :
          IsSession(s) => Len(answeredAttemptsOf(sessions[s], q)) <= 1)
  /\ [][\A u \in Users, s \in SessionIds, q \in TestQuestionIds, a \in TestAnswers,
          t \in TestTimeInputs :
          ( /\ sessions[s].kind = "test"
            /\ \E i \in 1..Len(sessions[s].answers) :
                 /\ sessions[s].answers[i].question_id = q
                 /\ sessions[s].answers[i].selected_answer = a
                 /\ sessions[s].answers[i].time_spent = t
            /\ resp'.code = HTTP_OK
            /\ Test_submitAnswer(u, s, q, a, t) )
          => sessions'[s] = sessions[s]]_vars
  /\ [][\A u \in Users, s \in SessionIds, q \in QuestionIds, a \in InterviewAnswers,
          t \in TimeInputs :
          ( /\ sessions[s].kind = "interview"
            /\ \E i \in 1..Len(sessions[s].questions) :
                 /\ sessions[s].questions[i].question_id = q
                 /\ sessions[s].questions[i].user_answer = a
                 /\ sessions[s].questions[i].time_taken = t
            /\ resp'.code = HTTP_OK
            /\ Interview_submitAnswer(u, s, q, a, t) )
          => sessions'[s] = sessions[s]]_vars

\* C8: a successful SubmitAnswer for question q changes one attempt, that of q
\* (written in place on an interview, appended to the answers of a test
\* session), and leaves every other attempt, the status and completed_at of
\* the session, the other sessions and the users unchanged
SubmitFrame(s, q) ==
  /\ sessions'[s].status = sessions[s].status
  /\ sessions'[s].completed_at = sessions[s].completed_at
  /\ \A p \in (QuestionIds \cup TestQuestionIds) \ {q} :
       attemptsOf(sessions'[s], p) = attemptsOf(sessions[s], p)
  /\ \A o \in SessionIds \ {s} : sessions'[o] = sessions[o]
  /\ users' = users

StatusMatchesReason ==
  [][\A u \in Users, s \in SessionIds, r \in Reasons :
       (IsSession(s) /\ resp'.code = HTTP_OK /\ CompleteSessionStep(u, s, r))
         => sessions'[s].status = r]_vars

\* C10: a session carries a FeedbackSummary only if its status is completed
FeedbackOnlyWhenCompleted ==
  \A s \in SessionIds :
    (sessions[s].kind = "interview" /\ sessions[s].overall_feedback.present)
      => sessions[s].status = "completed"

\* the answers of submitAnswer to a request it does not accept
SessionNotActiveMessages ==
  {"Interview session not found or not active", "Test session not found or not active"}
QuestionNotFoundMessage == "Question not found"
SubmitMessages ==
  SessionNotActiveMessages
    \cup {QuestionNotFoundMessage, "Answer submitted successfully", "Internal server error"}

\* the session token s names a session of the kind, owned by u
Matches(u, s, kind) == sessions[s].kind = kind /\ sessions[s].user_id = u

\* the question id is part of the session
QuestionInSession(s, q) ==
  IF sessions[s].kind = "interview"
  THEN \E i \in 1..Len(sessions[s].questions) : sessions[s].questions[i].question_id = q
  ELSE \E i \in 1..Len(Tests[sessions[s].test_id].questions) :
         Tests[sessions[s].test_id].questions[i].question_id = q

SessionOps ==
  {"Interview_getSession", "Interview_submitAnswer", "completeInterview",
   "Test_getSession", "Test_submitAnswer", "completeTest", "getResults"}

\* the 404 message of each of them
NotFoundMessage(op) ==
  CASE op = "Interview_getSession" -> "Interview session not found"
    [] op = "Interview_submitAnswer" -> "Interview session not found or not active"
    [] op = "completeInterview" -> "Interview session not found"
    [] op = "Test_getSession" -> "Test session not found"
    [] op = "Test_submitAnswer" -> "Test session not found or not active"
    [] op = "completeTest" -> "Test session not found"
    [] op = "getResults" -> "Test results not found"

\* a step of user u that addresses session s, by any handler of either variant
SessionOpStep(u, s) ==
  \/ Interview_getSession(u, s)
  \/ \E q \in QuestionIds, a \in InterviewAnswers, t \in TimeInputs :
       Interview_submitAnswer(u, s, q, a, t)
  \/ \E r \in Reasons : completeInterview(u, s, r)
  \/ Test_getSession(u, s)
  \/ \E q \in TestQuestionIds, a \in TestAnswers, t \in TestTimeInputs :
       Test_submitAnswer(u, s, q, a, t)
  \/ \E r \in Reasons : completeTest(u, s, r)
  \/ getResults(u, s)

\* C12: whatever operation a user who is not the owner of a session addresses
\* to it (get session, SubmitAnswer, CompleteSession, get results), the answer
\* is the 404 body of a missing session, carrying no data of the session, and
\* neither the session nor any user's statistics change
OnlyOwnerReadsAndMutates ==
  [][\A u \in Users, s \in SessionIds :
       ( /\ IsSession(s)
         /\ sessions[s].user_id # u
         /\ resp'.user = u
         /\ resp'.op \in SessionOps
         /\ SessionOpStep(u, s) )
         => ( /\ resp' = Response(resp'.op, u, HTTP_NOT_FOUND, NotFoundMessage(resp'.op))
              /\ sessions' = sessions
              /\ users' = users )]_vars

\* C12 witness: another user than the owner has addressed an existing session
\* and was answered 404
ForeignCallerRejected ==
  \E s \in SessionIds :
    /\ IsSession(s)
    /\ resp.op \in SessionOps
    /\ resp.user \in Users
    /\ resp.user # sessions[s].user_id
    /\ resp.code = HTTP_NOT_FOUND

\* the active questions of a category and difficulty ($match of getRandomQuestions)
MatchingPool(category, difficulty) ==
  {q \in QuestionBank : q.category = category /\ q.difficulty = difficulty}

\* C13: StartSession with question_count = n against a pool of at least n
\* matching questions answers 201 and creates an in_progress session with
\* exactly n attempts on n distinct questions of the pool, the first of them
\* the question handed out, numbered 1..n in order, each unanswered with
\* score 0 and time taken 0
StartCreatesSkeletons ==
  [][\A u \in Users, c \in Categories, d \in Difficulties, n \in 1..MaxQuestionCount :
       ( /\ resp'.op = "startInterview"
         /\ resp'.user = u
         /\ Cardinality(MatchingPool(c, d)) >= n
         /\ startInterview(u, c, d, n) )
         => /\ resp'.code = HTTP_CREATED
            /\ \E s \in SessionIds :
                 /\ sessions[s] = NoSession
                 /\ sessions'[s].kind = "interview"
                 /\ sessions'[s].user_id = u
                 /\ sessions'[s].status = "in_progress"
                 /\ Len(sessions'[s].questions) = n
                 /\ resp'.data.next_question = sessions'[s].questions[1].question_id
                 /\ \A i \in 1..n :
                      LET a == sessions'[s].questions[i]
                      IN  /\ a.order = i
                          /\ a.question_id \in {q._id : q \in MatchingPool(c, d)}
                          /\ \A j \in 1..n : j # i =>
                               sessions'[s].questions[j].question_id # a.question_id
                          /\ ~ isAnswered(a)
                          /\ a.user_answer = <<>>
                          /\ a.ai_score = 0
                          /\ a.time_taken = 0]_vars

\* C13 witness: an interview of MaxQuestionCount questions has just been started
SessionStartedWithSkeletons ==
  \E s \in SessionIds :
    /\ sessions[s].kind = "interview"
    /\ sessions[s].status = "in_progress"
    /\ Len(sessions[s].questions) = MaxQuestionCount
    /\ resp.op = "startInterview"
    /\ resp.code = HTTP_CREATED

\* C14: StartSession for a category and difficulty that no question matches is
\* answered 404 "No questions available" and creates no session
StartWithoutQuestionsIsNotFound ==
  [][\A u \in Users, c \in Categories, d \in Difficulties, n \in 1..MaxQuestionCount :
       ( /\ resp'.op = "startInterview"
         /\ resp'.user = u
         /\ MatchingPool(c, d) = {}
         /\ startInterview(u, c, d, n) )
         => /\ resp' = Response("startInterview", u, HTTP_NOT_FOUND, "No questions available")
            /\ sessions' = sessions
            /\ users' = users]_vars

\* C14 witness: a start was refused for want of questions while no session exists
StartRefusedNoQuestions ==
  /\ resp.op = "startInterview"
  /\ resp.code = HTTP_NOT_FOUND
  /\ \A s \in SessionIds : sessions[s] = NoSession

\* the questions of a session that hold no answer yet
UnansweredQuestions(session) ==
  IF session.kind = "interview"
  THEN {session.questions[i].question_id :
          i \in {j \in 1..Len(session.questions) : session.questions[j].user_answer = <<>>}}
  ELSE {Tests[session.test_id].questions[i].question_id :
          i \in 1..Len(Tests[session.test_id].questions)}
         \ {session.answers[i].question_id : i \in 1..Len(session.answers)}

\* C15: the body of a successful SubmitAnswer hands out a question of the
\* session that is still unanswered, none exactly when none remains, and its
\* is_complete flag is set exactly when every question of the session has an
\* answer
SubmitReportsNextUnanswered ==
  \A s \in SessionIds :
    ( /\ IsSession(s)
      /\ resp.op \in {"Interview_submitAnswer", "Test_submitAnswer"}
      /\ resp.code = HTTP_OK )
      => /\ resp.data.is_complete <=> UnansweredQuestions(sessions[s]) = {}
         /\ resp.data.next_question = "none" <=> UnansweredQuestions(sessions[s]) = {}
         /\ resp.data.next_question # "none" =>
              resp.data.next_question \in UnansweredQuestions(sessions[s])

\* the normalization the specification names: trim and case-fold of a string
\* answer, any other value as it is
Normalized(a) == IF a.t = "string" THEN Str(trim(toLowerCase(a.v))) ELSE a

\* C16: every recorded answer to a multiple-choice or true/false question is
\* correct exactly when it equals correct_answer after normalization, and it
\* earns the points of the question when correct and none otherwise
ClosedFormAnswerIsNormalized ==
  \A s \in SessionIds :
    sessions[s].kind = "test" =>
      \A i \in 1..Len(sessions[s].answers) :
        LET answer == sessions[s].answers[i]
            test == Tests[sessions[s].test_id]
            question == test.questions[findTestQuestion(test, answer.question_id)]
        IN  question.question_type \in {"multiple_choice", "true_false"} =>
              /\ answer.is_correct
                   <=> StrictEq(Normalized(answer.selected_answer),
                                Normalized(question.correct_answer))
              /\ answer.points_earned = IF answer.is_correct THEN question.points ELSE 0

\* C17: a SubmitAnswer of the owner on an in_progress session, for a question
\* of the session, whose scoring throws still answers 200 and records the
\* fallback result: score FallbackScore with no keyword matches in the
\* interview variant, an incorrect answer with no points in the test variant
ScoringErrorFallsBack ==
  [][\A u \in Users, s \in SessionIds :
       /\ \A q \in TestQuestionIds, a \in TestAnswers, t \in TestTimeInputs :
            ( /\ resp'.op = "Test_submitAnswer"
              /\ resp'.user = u
              /\ TestSession_findActive(u, s)
              /\ \E i \in 1..Len(Tests[sessions[s].test_id].questions) :
                   Tests[sessions[s].test_id].questions[i].question_id = q
              /\ checkAnswerThrows(
                   Tests[sessions[s].test_id].questions[
                     findTestQuestion(Tests[sessions[s].test_id], q)], a)
              /\ Test_submitAnswer(u, s, q, a, t) )
              => /\ resp'.code = HTTP_OK
                 /\ Len(sessions'[s].answers) = Len(sessions[s].answers) + 1
                 /\ LET recorded == sessions'[s].answers[Len(sessions'[s].answers)]
                    IN  /\ recorded.question_id = q
                        /\ ~ recorded.is_correct
                        /\ recorded.points_earned = 0
       /\ \A q \in QuestionIds, a \in InterviewAnswers, t \in TimeInputs :
            ( /\ resp'.op = "Interview_submitAnswer"
              /\ resp'.user = u
              /\ Interview_findActive(u, s)
              /\ findQuestionIndex(sessions[s].questions, q) # 0
              /\ LET question == sessions[s].questions[
                                   findQuestionIndex(sessions[s].questions, q)]
                 IN  simulateThrows([question |-> question.question_text,
                                     user_answer |-> a,
                                     expected_keywords |-> question.expected_keywords])
              /\ Interview_submitAnswer(u, s, q, a, t) )
              => /\ resp'.code = HTTP_OK
                 /\ LET recorded == sessions'[s].questions[
                                      findQuestionIndex(sessions[s].questions, q)]
                    IN  /\ recorded.ai_score = FallbackScore
                        /\ recorded.feedback.keyword_matches = 0]_vars

\* C18: for every question of a stored interview and every answer a request
\* can carry, the score the analysis returns is a number between 0 and ScoreMax
FreeTextScoreInRange ==
  \A s \in SessionIds :
    sessions[s].kind = "interview" =>
      \A i \in 1..Len(sessions[s].questions), a \in InterviewAnswers :
        InRange(analyzeAnswer([question |-> sessions[s].questions[i].question_text,
                               user_answer |-> a,
                               expected_keywords |->
                                 sessions[s].questions[i].expected_keywords]).score)

\* the fields of a question that hold its answer key
AnswerKeyFields == {"correct_answer", "expected_keywords"}

\* C20: no response body carries the correct_answer or the expected_keywords
\* of a question
NoAnswerKeyInPayload ==
  resp.data.question_fields \cap AnswerKeyFields = {}

\* the session holds the answer and the score of the submission of request req
HoldsSubmission(session, req) ==
  IF session.kind = "interview"
  THEN \E i \in 1..Len(session.questions) :
         LET question == session.questions[i]
         IN  /\ question.question_id = req.question_id
             /\ question.user_answer = req.answer
             /\ question.time_taken = req.time
             /\ question.ai_score
                  = analyzeAnswer([question |-> question.question_text,
                                   user_answer |-> req.answer,
                                   expected_keywords |-> question.expected_keywords]).score
  ELSE \E i \in 1..Len(session.answers) :
         LET test == Tests[session.test_id]
             question == test.questions[findTestQuestion(test, req.question_id)]
         IN  /\ session.answers[i].question_id = req.question_id
             /\ session.answers[i].selected_answer = req.answer
             /\ session.answers[i].is_correct = checkAnswer(question, req.answer)

\* the stored aggregates of a session equal the values recomputed from its attempts
AggregatesRecomputed(session) ==
  IF session.kind = "interview"
  THEN /\ session.metadata.answered_questions = answeredQuestions(session)
       /\ session.metadata.completion_rate = completionRate(session)
  ELSE /\ session.score = aggregate_score(session)
       /\ session.correct_answers = Count(session.answers, LAMBDA a : a.is_correct)

\* C19: once two SubmitAnswer requests for different questions of the same
\* session have both been saved, in whatever order their lookups and saves
\* interleaved, the session holds the answer and score of each of them and
\* its stored aggregates equal the values recomputed from its attempts
InterleavedSubmitsBothTakeEffect ==
  \A r1 \in Requests, r2 \in Requests :
    ( /\ requests[r1].state = "saved"
      /\ requests[r2].state = "saved"
      /\ requests[r1].session_id = requests[r2].session_id
      /\ requests[r1].question_id # requests[r2].question_id )
      => LET session == sessions[requests[r1].session_id]
         IN  /\ HoldsSubmission(session, requests[r1])
             /\ HoldsSubmission(session, requests[r2])
             /\ AggregatesRecomputed(session)

\* score is the mean total / n, whatever the rounding
IsMean(score, total, n) ==
  n > 0 /\ (score - 1) * n < total /\ total < (score + 1) * n

\* C21: the current_score of a successful SubmitAnswer is, for an interview,
\* the arithmetic mean of the per-question scores (over the questions of the
\* session, or over the answered ones) and, for a test, the share of correct
\* answers in total_questions, times 100
ReportedScoreIsMean ==
  \A s \in SessionIds :
    /\ ( /\ sessions[s].kind = "interview"
         /\ resp.op = "Interview_submitAnswer"
         /\ resp.code = HTTP_OK )
         => LET questions == sessions[s].questions
                total == SumSeq([i \in 1..Len(questions) |-> questions[i].ai_score])
            IN  \A score \in resp.data.current_score :
                  \/ IsMean(score, total, Len(questions))
                  \/ IsMean(score, total, answeredQuestions(sessions[s]))
    /\ ( /\ sessions[s].kind = "test"
         /\ resp.op = "Test_submitAnswer"
         /\ resp.code = HTTP_OK )
         => resp.data.current_score
              = {Round(Count(sessions[s].answers, LAMBDA a : a.is_correct) * 100,
                       sessions[s].total_questions)}

\* C22: a SubmitAnswer that does not succeed, whatever the reason (no active
\* session, unknown question, scoring error, document rejected by save),
\* leaves every stored session and every user's statistics as they were
FailedSubmitLeavesSessionUnchanged ==
  [][\A u \in Users, s \in SessionIds :
       ( /\ resp'.op \in {"Interview_submitAnswer", "Test_submitAnswer"}
         /\ resp'.user = u
         /\ resp'.code # HTTP_OK
         /\ \/ \E q \in QuestionIds, a \in InterviewAnswers, t \in TimeInputs :
                 Interview_submitAnswer(u, s, q, a, t)
            \/ \E q \in TestQuestionIds, a \in TestAnswers, t \in TestTimeInputs :
                 Test_submitAnswer(u, s, q, a, t) )
         => (sessions' = sessions /\ users' = users)]_vars

\* C22 witness: the owner's SubmitAnswer on an in_progress session has failed
\* with an internal error (a scoring or persistence error)
SubmitFailedOnActiveSession ==
  \E s \in SessionIds :
    /\ IsSession(s)
    /\ sessions[s].status = "in_progress"
    /\ resp.op \in {"Interview_submitAnswer", "Test_submitAnswer"}
    /\ resp.user = sessions[s].user_id
    /\ resp.code = HTTP_INTERNAL_SERVER_ERROR

\* user u holds a session completed on the calendar day of the clock
AlreadyCompletedToday(u) ==
  \E s \in SessionIds :
    /\ IsSession(s)
    /\ sessions[s].user_id = u
    /\ sessions[s].status = "completed"
    /\ toDateString(sessions[s].completed_at) = toDateString(now)

\* the score a completed session contributes to the statistics of its owner
SessionScore(session) ==
  IF session.kind = "interview" THEN session.overall_feedback.total_score ELSE session.score

\* C23: a successful CompleteSession with reason completed raises the owner's
\* completed count by one and the total by the score of the session, and it
\* raises the study streak by at most one, and not at all when the owner has
\* already completed a session on the same calendar day
StreakRisesOncePerDay ==
  [][\A u \in Users, s \in SessionIds :
       ( /\ resp'.op \in {"completeInterview", "completeTest"}
         /\ resp'.user = u
         /\ resp'.code = HTTP_OK
         /\ CompleteSessionStep(u, s, "completed") )
         => /\ users'[u].interviews_completed + users'[u].tests_completed
                 = users[u].interviews_completed + users[u].tests_completed + 1
            /\ users'[u].total_score = users[u].total_score + SessionScore(sessions'[s])
            /\ users'[u].current_streak <= users[u].current_streak + 1
            /\ AlreadyCompletedToday(u)
                 => users'[u].current_streak = users[u].current_streak]_vars

\* every question of the interview is answered and the mean of the
\* per-question scores lies in the band [lo, hi)
MeanScoreInBand(interview, lo, hi) ==
  LET n == Len(interview.questions)
      total == SumSeq([i \in 1..n |-> interview.questions[i].ai_score])
  IN  /\ n > 0
      /\ \A i \in 1..n : isAnswered(interview.questions[i])
      /\ lo * n <= total
      /\ total < hi * n

\* C24: CompleteSession with reason completed on an interview whose questions
\* are all answered with a mean score in [75, 90) succeeds and stores the
\* overall_rating good, whatever the difficulty of the interview
MeanInGoodBandRatesGood ==
  [][\A u \in Users, s \in SessionIds :
       ( /\ resp'.op = "completeInterview"
         /\ resp'.user = u
         /\ Interview_find(u, s)
         /\ MeanScoreInBand(sessions[s], 75, 90)
         /\ completeInterview(u, s, "completed") )
         => /\ resp'.code = HTTP_OK
            /\ sessions'[s].overall_feedback.present
            /\ sessions'[s].overall_feedback.overall_rating = "good"]_vars

\* C29: for every stored interview, of whatever difficulty and completion
\* fraction, the total_score the feedback would carry lies between 0 and
\* ScoreMax, the range its schema accepts
TotalScoreInRange ==
  \A s \in SessionIds :
    sessions[s].kind = "interview" =>
      InRange(generateFeedback(sessions[s]).total_score)

\* C25: every answer recorded in a test session earns either no points or
\* the full points of its question
PointsAreAllOrNothing ==
  \A s \in SessionIds :
    sessions[s].kind = "test" =>
      \A i \in 1..Len(sessions[s].answers) :
        LET answer == sessions[s].answers[i]
            test == Tests[sessions[s].test_id]
            question == test.questions[findTestQuestion(test, answer.question_id)]
        IN  answer.points_earned \in {0, question.points}

\* C25 witness: a session holds a wrong answer without points and a correct
\* answer with the full points of a question worth more than one point
FullAndZeroPointsRecorded ==
  \E s \in SessionIds :
    /\ sessions[s].kind = "test"
    /\ \E i, j \in 1..Len(sessions[s].answers) :
         /\ ~ sessions[s].answers[i].is_correct
         /\ sessions[s].answers[i].points_earned = 0
         /\ sessions[s].answers[j].is_correct
         /\ sessions[s].answers[j].points_earned > 1

\* C26: the save of a SubmitAnswer request that finds the status of its
\* session terminal, because a CompleteSession ran after the request had
\* read the session as in_progress, stores nothing: no attempt, score or
\* answered count of the session changes
NoSubmitPersistsAfterTerminal ==
  [][\A r \in Requests :
       ( /\ requests[r].state = "found"
         /\ IsTerminal(requests[r].session_id)
         /\ requests'[r].state # "found"
         /\ (Interview_submitAnswer_save(r) \/ Test_submitAnswer_save(r)) )
         => sessions' = sessions]_vars


\* C27: a user never has two in_progress TestSessions of the same test, also
\* when two startTest requests of that user for that test run concurrently
NoTwoActiveSessionsOfOneTest ==
  \A s \in DOMAIN sessions, o \in DOMAIN sessions :
    ( /\ s # o
      /\ sessions[s].kind = "test"
      /\ sessions[o].kind = "test"
      /\ sessions[s].status = "in_progress"
      /\ sessions[o].status = "in_progress"
      /\ sessions[s].user_id = sessions[o].user_id )
      => sessions[s].test_id # sessions[o].test_id


\* the sessions of the given kind that user u holds with status completed
CompletedSessions(u, kind) ==
  {s \in DOMAIN sessions :
     sessions[s].kind = kind /\ sessions[s].user_id = u /\ sessions[s].status = "completed"}

RECURSIVE SumOfScores(_)
SumOfScores(S) ==
  IF S = {} THEN 0
  ELSE LET s == CHOOSE x \in S : TRUE
       IN  SessionScore(sessions[s]) + SumOfScores(S \ {s})

\* C28: every session is counted at most once in the statistics of its owner:
\* interviews_completed and tests_completed equal the numbers of the owner's
\* sessions with status completed, and total_score is the sum of their scores
StatisticsCountEachSessionOnce ==
  \A u \in Users :
    /\ users[u].interviews_completed = Cardinality(CompletedSessions(u, "interview"))
    /\ users[u].tests_completed = Cardinality(CompletedSessions(u, "test"))
    /\ users[u].total_score =
         SumOfScores(CompletedSessions(u, "interview") \cup CompletedSessions(u, "test"))


RECURSIVE WindowAfter(_, _)
\* the window of caller ip after the first i logged requests: whether one has
\* been opened, the time of its first counted attempt, and the requests of the
\* caller counted in it; a request later than windowMs after the first counted
\* attempt opens a new window
WindowAfter(ip, i) ==
  IF i = 0 THEN [open |-> FALSE, start |-> 0, n |-> 0]
  ELSE LET w == WindowAfter(ip, i - 1)
           e == authLog[i]
       IN  IF e.ip # ip THEN w
           ELSE IF w.open /\ e.at - w.start <= windowMs THEN [w EXCEPT !.n = @ + 1]
           ELSE [open |-> TRUE, start |-> e.at, n |-> 1]

\* C30: of the requests of one caller address, the first maxAttempts within the
\* window that follows the caller's first counted attempt pass and every
\* further one in the window is rejected with 429; after the window the caller
\* is admitted again with a fresh count; the requests of other callers do not
\* enter a caller's count
RateLimitFollowsWindow ==
  /\ \A i \in 1..Len(authLog) :
       authLog[i].passed <=> WindowAfter(authLog[i].ip, i).n <= maxAttempts
  /\ \A ip \in Ips, i \in 1..Len(authLog) :
       LET w == WindowAfter(ip, i)
       IN  Cardinality({j \in 1..i : /\ authLog[j].ip = ip
                                     /\ authLog[j].passed
                                     /\ authLog[j].at >= w.start
                                     /\ authLog[j].at <= w.start + windowMs})
             <= maxAttempts
  /\ (resp.op = "authRateLimit" /\ authLog # <<>>) =>
       /\ resp.user = authLog[Len(authLog)].ip
       /\ (resp.code = HTTP_TOO_MANY_REQUESTS) <=> ~ authLog[Len(authLog)].passed

\* a caller was rejected within its window and admitted again after it
RejectedThenAdmittedAfterWindow ==
  \E i \in 1..Len(authLog), j \in 1..Len(authLog) :
    /\ i < j
    /\ authLog[i].ip = authLog[j].ip
    /\ ~ authLog[i].passed
    /\ authLog[j].passed
    /\ authLog[j].at - WindowAfter(authLog[i].ip, i).start > windowMs

====
